---- MODULE Spec2Model ----
(***************************************************************************)
(* The voting view of django_reddit (reddit/views.py, vote): one request   *)
(* reads the voted-on object, reads the user's existing Vote row, adjusts  *)
(* the object's denormalised ups/downs/score and saves the object and the  *)
(* Vote row.                                                               *)
(*                                                                         *)
(* Two specifications share the definitions below:                         *)
(*   Spec      one server handles requests one at a time; every action is  *)
(*             a whole run of the handler.                                 *)
(*   ConcSpec  two workers run the handler at the same time; every action  *)
(*             is one database access of the handler (the view opens no    *)
(*             transaction and takes no lock, so the accesses of two       *)
(*             requests interleave freely).                                *)
(***************************************************************************)
EXTENDS Integers, FiniteSets

VARIABLES
    ups,              \* ups[o]: the stored ups column of votable o
    downs,            \* downs[o]: the stored downs column of votable o
    score,            \* score[o]: the stored score column of votable o
    votes,            \* the Vote table: rows [id, user, obj, value]
    pc,               \* pc[w]: where worker w is in the handler
    req,              \* req[w]: the request worker w is handling
    vote_object,      \* vote_object[w]: the object row as read at l.241-246
    vote,             \* vote[w]: the Vote row as read at l.255 (id 0: none),
                      \*          .read the value read, .value the value in memory
    vote_vote_object, \* vote_vote_object[w]: vote.vote_object, the instance the
                      \*          handler mutates and saves
    vote_diff,        \* vote_diff[w]: the local vote_diff (the voteDiff returned)
    response,         \* response[w]: the outcome of the handler
    calls             \* requests started so far (ConcSpec only)

vars == <<ups, downs, score, votes, pc, req, vote_object, vote,
          vote_vote_object, vote_diff, response, calls>>

db == <<ups, downs, score, votes>>

locals == <<req, vote_object, vote, vote_vote_object, vote_diff, response>>

(***************************************************************************)
(* Bounds and input domains.                                               *)
(***************************************************************************)
\* ConcSpec starts at most MaxCalls requests.
MaxCalls == 3

Users == {"A", "B"}

Anonymous == "anonymous"

\* The objects that exist: Submission 1 and Comment 1.
Votables == {<<"submission", "1">>, <<"comment", "1">>}

\* POST field 'what'.
Whats == {"submission", "comment", "user"}

\* POST field 'what_id'; no object has id 2.
WhatIds == {"1", "2"}

\* POST field 'vote_value', as the text the client sent.
RawValues == {"1", "-1", "0", "abc"}

AllRequests == [user : Users \cup {Anonymous}, what : Whats,
                what_id : WhatIds, vote_value : RawValues]

\* The fields of a request that make the handler refuse it.
BadFields(r) ==
    (IF r.user = Anonymous THEN {"user"} ELSE {})
    \cup (IF r.what = "user" THEN {"what"} ELSE {})
    \cup (IF r.what_id = "2" THEN {"what_id"} ELSE {})
    \cup (IF r.vote_value \notin {"1", "-1"} THEN {"vote_value"} ELSE {})

\* The requests sent: the well-formed ones and those wrong in one field.
Requests == {r \in AllRequests : Cardinality(BadFields(r)) <= 1}

Workers == {"w1", "w2"}

\* The worker of the sequential specification.
Server == "w1"

NoRequest == [user |-> Anonymous, what |-> "", what_id |-> "", vote_value |-> ""]

NoObject == [ups |-> 0, downs |-> 0, score |-> 0]

NoVote == [id |-> 0, read |-> 0, value |-> 0]

(***************************************************************************)
(* The checks the handler makes before it touches the database.            *)
(***************************************************************************)
\* request.user.is_authenticated()
is_authenticated(user) == user # Anonymous

\* int(new_vote_value): the integer a decimal text denotes, ValueError otherwise.
int(raw) ==
    CASE raw = "1"  -> [err |-> "", val |-> 1]
      [] raw = "-1" -> [err |-> "", val |-> -1]
      [] raw = "0"  -> [err |-> "", val |-> 0]
      [] OTHER      -> [err |-> "ValueError", val |-> 0]

\* A faulty variant of Validate: the authentication check is left out.
ValidateNoAuth(r) ==
    IF int(r.vote_value).err = "ValueError" THEN "BadRequest"
    ELSE IF int(r.vote_value).val \notin {-1, 1} THEN "BadRequest"
    ELSE IF r.what \notin {"comment", "submission"} THEN "BadRequest"
    ELSE "continue"

\* The outcome of the checks of a request: the response that ends it, or
\* "continue" when the handler goes on to the database.
Validate(r) ==
    IF ~is_authenticated(r.user) THEN "Forbidden"
    ELSE IF int(r.vote_value).err = "ValueError" THEN "BadRequest"
    ELSE IF int(r.vote_value).val \notin {-1, 1} THEN "BadRequest"
    ELSE IF r.what \notin {"comment", "submission"} THEN "BadRequest"
    ELSE "continue"

\* new_vote_value after int().
new_vote_value(r) == int(r.vote_value).val

\* The object a request names.
ObjectOf(r) == <<r.what, r.what_id>>

\* Comment.objects.get / Submission.objects.get: the row exists.
ObjectExists(r) == ObjectOf(r) \in Votables

\* The object row as a read returns it.
ReadObject(o) == [ups |-> ups[o], downs |-> downs[o], score |-> score[o]]

(***************************************************************************)
(* The Vote table.                                                         *)
(***************************************************************************)
\* The rows of one (user, votable) pair.
VotesOf(rows, user, o) == {r \in rows : r.user = user /\ r.obj = o}

\* Vote.objects.get(...) finds a row (it raises DoesNotExist otherwise).
VoteExists(rows, user, o) == VotesOf(rows, user, o) # {}

\* Vote.objects.get(...): the row found.
GetVote(rows, user, o) ==
    LET r == CHOOSE x \in VotesOf(rows, user, o) : TRUE
    IN  [id |-> r.id, read |-> r.value, value |-> r.value]

\* The primary key the next inserted row gets.
NextId(rows) ==
    IF rows = {} THEN 1
    ELSE 1 + (CHOOSE n \in {r.id : r \in rows} : \A r \in rows : r.id <= n)

\* The unique key (user, votable) of the Vote table rejects a second row.
UniqueViolation(rows, user, o) == VotesOf(rows, user, o) # {}

\* vote.save() of a new Vote: one row more.
InsertVote(rows, user, o, value) ==
    rows \cup {[id |-> NextId(rows), user |-> user, obj |-> o, value |-> value]}

\* A faulty variant of UpdateVote: a vote cancelled to 0 is deleted.
UpdateVoteDeletes(rows, id, value) ==
    IF value = 0 THEN {r \in rows : r.id # id}
    ELSE {IF r.id = id THEN [r EXCEPT !.value = value] ELSE r : r \in rows}

\* vote.save() of a Vote that was read: its row gets the new value.
UpdateVote(rows, id, value) ==
    {IF r.id = id THEN [r EXCEPT !.value = value] ELSE r : r \in rows}

(***************************************************************************)
(* The transitions of the counters.                                        *)
(***************************************************************************)
\* Vote.create(user, vote_object, vote_value): the counters of the instance
\* passed in, adjusted for a first vote (they are saved by create).
Create(obj, v) ==
    [ups   |-> obj.ups + (IF v = 1 THEN 1 ELSE 0),
     downs |-> obj.downs + (IF v = -1 THEN 1 ELSE 0),
     score |-> obj.score + v]

\* A faulty variant of CreateDiff: vote_diff keeps its initial 0.
CreateDiffZero(v) == 0

\* vote_diff = new_vote_value, for a first vote.
CreateDiff(v) == v

\* A faulty variant of Cancel: cancelling a down vote takes it off ups.
CancelWrongCounter(obj, old) ==
    CASE old = 1  -> [obj  |-> [obj EXCEPT !.ups = @ - 1, !.score = @ - 1],
                      diff |-> -1, value |-> 0]
      [] old = -1 -> [obj  |-> [obj EXCEPT !.ups = @ - 1, !.score = @ + 1],
                      diff |-> 1, value |-> 0]
      [] OTHER    -> [obj |-> obj, diff |-> 0, value |-> 0]

\* A faulty variant of Cancel: the cancelled up vote reports +1.
CancelWrongDiff(obj, old) ==
    CASE old = 1  -> [obj  |-> [obj EXCEPT !.ups = @ - 1, !.score = @ - 1],
                      diff |-> 1, value |-> 0]
      [] old = -1 -> [obj  |-> [obj EXCEPT !.downs = @ - 1, !.score = @ + 1],
                      diff |-> 1, value |-> 0]
      [] OTHER    -> [obj |-> obj, diff |-> 0, value |-> 0]

\* Cancelling (vote.value = new_vote_value, l.271-282): the counters,
\* vote_diff and the new vote.value.
Cancel(obj, old) ==
    CASE old = 1  -> [obj  |-> [obj EXCEPT !.ups = @ - 1, !.score = @ - 1],
                      diff |-> -1, value |-> 0]
      [] old = -1 -> [obj  |-> [obj EXCEPT !.downs = @ - 1, !.score = @ + 1],
                      diff |-> 1, value |-> 0]
      [] OTHER    -> [obj |-> obj, diff |-> 0, value |-> 0]

\* A faulty variant of Change: a flip moves the score by 1 only.
ChangeFlipByOne(obj, old, v) ==
    CASE old = -1 /\ v = 1 ->
            [ok |-> TRUE, value |-> v, diff |-> 1,
             obj |-> [obj EXCEPT !.score = @ + 1, !.ups = @ + 1, !.downs = @ - 1]]
      [] old = 1 /\ v = -1 ->
            [ok |-> TRUE, value |-> v, diff |-> -1,
             obj |-> [obj EXCEPT !.score = @ - 1, !.ups = @ - 1, !.downs = @ + 1]]
      [] old = 0 /\ v = 1 ->
            [ok |-> TRUE, value |-> v, diff |-> 1,
             obj |-> [obj EXCEPT !.ups = @ + 1, !.score = @ + 1]]
      [] old = 0 /\ v = -1 ->
            [ok |-> TRUE, value |-> v, diff |-> -1,
             obj |-> [obj EXCEPT !.downs = @ + 1, !.score = @ - 1]]
      [] OTHER ->
            [ok |-> FALSE, value |-> old, diff |-> 0, obj |-> obj]

\* A faulty variant of Change: a cancelled vote recast as down is counted as up.
ChangeRecastAsUp(obj, old, v) ==
    CASE old = -1 /\ v = 1 ->
            [ok |-> TRUE, value |-> v, diff |-> 2,
             obj |-> [obj EXCEPT !.score = @ + 2, !.ups = @ + 1, !.downs = @ - 1]]
      [] old = 1 /\ v = -1 ->
            [ok |-> TRUE, value |-> v, diff |-> -2,
             obj |-> [obj EXCEPT !.score = @ - 2, !.ups = @ - 1, !.downs = @ + 1]]
      [] old = 0 ->
            [ok |-> TRUE, value |-> v, diff |-> 1,
             obj |-> [obj EXCEPT !.ups = @ + 1, !.score = @ + 1]]
      [] OTHER ->
            [ok |-> FALSE, value |-> old, diff |-> 0, obj |-> obj]

\* Changing (vote.value # new_vote_value, l.285-308): the counters, vote_diff
\* and the new vote.value, or the bad request of an old/new combination the
\* branches do not list.
Change(obj, old, v) ==
    CASE old = -1 /\ v = 1 ->
            [ok |-> TRUE, value |-> v, diff |-> 2,
             obj |-> [obj EXCEPT !.score = @ + 2, !.ups = @ + 1, !.downs = @ - 1]]
      [] old = 1 /\ v = -1 ->
            [ok |-> TRUE, value |-> v, diff |-> -2,
             obj |-> [obj EXCEPT !.score = @ - 2, !.ups = @ - 1, !.downs = @ + 1]]
      [] old = 0 /\ v = 1 ->
            [ok |-> TRUE, value |-> v, diff |-> 1,
             obj |-> [obj EXCEPT !.ups = @ + 1, !.score = @ + 1]]
      [] old = 0 /\ v = -1 ->
            [ok |-> TRUE, value |-> v, diff |-> -1,
             obj |-> [obj EXCEPT !.downs = @ + 1, !.score = @ - 1]]
      [] OTHER ->
            [ok |-> FALSE, value |-> old, diff |-> 0, obj |-> obj]

\* vote.vote_object.save(): all three columns of the row are written.
SaveObject(o, obj) ==
    /\ ups'   = [ups EXCEPT ![o] = obj.ups]
    /\ downs' = [downs EXCEPT ![o] = obj.downs]
    /\ score' = [score EXCEPT ![o] = obj.score]

(***************************************************************************)
(* The initial state: no votes, all counters 0, every worker idle.         *)
(***************************************************************************)
Init ==
    /\ ups = [o \in Votables |-> 0]
    /\ downs = [o \in Votables |-> 0]
    /\ score = [o \in Votables |-> 0]
    /\ votes = {}
    /\ pc = [w \in Workers |-> "idle"]
    /\ req = [w \in Workers |-> NoRequest]
    /\ vote_object = [w \in Workers |-> NoObject]
    /\ vote = [w \in Workers |-> NoVote]
    /\ vote_vote_object = [w \in Workers |-> NoObject]
    /\ vote_diff = [w \in Workers |-> 0]
    /\ response = [w \in Workers |-> ""]
    /\ calls = 0

\* Worker w leaves the handler with the given locals and response.
Finish(w, r, obj, vt, vobj, diff, status) ==
    /\ pc' = [pc EXCEPT ![w] = "done"]
    /\ req' = [req EXCEPT ![w] = r]
    /\ vote_object' = [vote_object EXCEPT ![w] = obj]
    /\ vote' = [vote EXCEPT ![w] = vt]
    /\ vote_vote_object' = [vote_vote_object EXCEPT ![w] = vobj]
    /\ vote_diff' = [vote_diff EXCEPT ![w] = diff]
    /\ response' = [response EXCEPT ![w] = status]

(***************************************************************************)
(* Spec: one request at a time.  Each action is a whole run of vote().     *)
(***************************************************************************)
\* The request fails a check (l.219-238): nothing is read or written.
Rejected(r) ==
    /\ Validate(r) # "continue"
    /\ Finish(Server, r, NoObject, NoVote, NoObject, 0, Validate(r))
    /\ UNCHANGED <<db, calls>>

\* The object does not exist (l.250-251): the handler returns the class
\* HttpResponseBadRequest, not a response.
NotFound(r) ==
    /\ Validate(r) = "continue"
    /\ ~ObjectExists(r)
    /\ Finish(Server, r, NoObject, NoVote, NoObject, 0, "BadRequestClass")
    /\ UNCHANGED <<db, calls>>

\* The user has no Vote on the object (l.259-267).
FirstVote(r) ==
    /\ Validate(r) = "continue"
    /\ ObjectExists(r)
    /\ ~VoteExists(votes, r.user, ObjectOf(r))
    /\ LET o    == ObjectOf(r)
           v    == new_vote_value(r)
           obj  == ReadObject(o)
           vobj == Create(obj, v)
       IN  /\ SaveObject(o, vobj)
           /\ votes' = InsertVote(votes, r.user, o, v)
           /\ Finish(Server, r, obj, [NoVote EXCEPT !.value = v], vobj,
                     CreateDiff(v), "OK")
    /\ UNCHANGED calls

\* The user's Vote has the value requested: it is cancelled (l.271-284).
CancelVote(r) ==
    /\ Validate(r) = "continue"
    /\ ObjectExists(r)
    /\ VoteExists(votes, r.user, ObjectOf(r))
    /\ LET o   == ObjectOf(r)
           v   == new_vote_value(r)
           vt  == GetVote(votes, r.user, o)
           obj == ReadObject(o)
           res == Cancel(obj, vt.read)
       IN  /\ vt.read = v
           /\ SaveObject(o, res.obj)
           /\ votes' = UpdateVote(votes, vt.id, res.value)
           /\ Finish(Server, r, obj, [vt EXCEPT !.value = res.value], res.obj,
                     res.diff, "OK")
    /\ UNCHANGED calls

\* The user's Vote has another value: it is changed (l.285-310).
ChangeVote(r) ==
    /\ Validate(r) = "continue"
    /\ ObjectExists(r)
    /\ VoteExists(votes, r.user, ObjectOf(r))
    /\ LET o   == ObjectOf(r)
           v   == new_vote_value(r)
           vt  == GetVote(votes, r.user, o)
           obj == ReadObject(o)
           res == Change(obj, vt.read, v)
       IN  /\ vt.read # v
           /\ IF res.ok
              THEN /\ SaveObject(o, res.obj)
                   /\ votes' = UpdateVote(votes, vt.id, res.value)
                   /\ Finish(Server, r, obj, [vt EXCEPT !.value = res.value], res.obj,
                             res.diff, "OK")
              ELSE /\ Finish(Server, r, obj, vt, obj, 0, "BadRequest")
                   /\ UNCHANGED db
    /\ UNCHANGED calls

Next ==
    \E r \in Requests :
        \/ Rejected(r)
        \/ NotFound(r)
        \/ FirstVote(r)
        \/ CancelVote(r)
        \/ ChangeVote(r)

Spec == Init /\ [][Next]_vars

(***************************************************************************)
(* ConcSpec: two workers.  Each action is one database access of vote(),   *)
(* together with the local computation that follows it.                    *)
(***************************************************************************)
\* l.204-238: a request arrives and is checked.
Request(w, r) ==
    /\ pc[w] = "idle"
    /\ calls < MaxCalls
    /\ calls' = calls + 1
    /\ req' = [req EXCEPT ![w] = r]
    /\ IF Validate(r) = "continue"
       THEN /\ pc' = [pc EXCEPT ![w] = "get_object"]
            /\ UNCHANGED response
       ELSE /\ pc' = [pc EXCEPT ![w] = "done"]
            /\ response' = [response EXCEPT ![w] = Validate(r)]
    /\ UNCHANGED <<db, vote_object, vote, vote_vote_object, vote_diff>>

\* l.241-251: the object is read.
GetObject(w) ==
    /\ pc[w] = "get_object"
    /\ IF ObjectExists(req[w])
       THEN /\ vote_object' = [vote_object EXCEPT ![w] = ReadObject(ObjectOf(req[w]))]
            /\ pc' = [pc EXCEPT ![w] = "get_vote"]
            /\ UNCHANGED response
       ELSE /\ pc' = [pc EXCEPT ![w] = "done"]
            /\ response' = [response EXCEPT ![w] = "BadRequestClass"]
            /\ UNCHANGED vote_object
    /\ UNCHANGED <<db, req, vote, vote_vote_object, vote_diff, calls>>

\* l.254-259: the user's Vote on the object is looked up.
LookupVote(w) ==
    /\ pc[w] = "get_vote"
    /\ IF VoteExists(votes, req[w].user, ObjectOf(req[w]))
       THEN /\ vote' = [vote EXCEPT ![w] = GetVote(votes, req[w].user, ObjectOf(req[w]))]
            /\ pc' = [pc EXCEPT ![w] = "load"]
       ELSE /\ vote' = [vote EXCEPT ![w] = [NoVote EXCEPT !.value = new_vote_value(req[w])]]
            /\ pc' = [pc EXCEPT ![w] = "create"]
    /\ UNCHANGED <<db, req, vote_object, vote_vote_object, vote_diff, response, calls>>

\* l.261-263: Vote.create adjusts the counters of the instance read at
\* l.241-246 and saves it.
CreateVote(w) ==
    /\ pc[w] = "create"
    /\ LET vobj == Create(vote_object[w], new_vote_value(req[w]))
       IN  /\ SaveObject(ObjectOf(req[w]), vobj)
           /\ vote_vote_object' = [vote_vote_object EXCEPT ![w] = vobj]
    /\ pc' = [pc EXCEPT ![w] = "save_new"]
    /\ UNCHANGED <<votes, req, vote_object, vote, vote_diff, response, calls>>

\* l.264-267: the new Vote is inserted; the unique key may reject it.
SaveNewVote(w) ==
    /\ pc[w] = "save_new"
    /\ pc' = [pc EXCEPT ![w] = "done"]
    /\ IF UniqueViolation(votes, req[w].user, ObjectOf(req[w]))
       THEN /\ response' = [response EXCEPT ![w] = "ServerError"]
            /\ UNCHANGED <<votes, vote_diff>>
       ELSE /\ votes' = InsertVote(votes, req[w].user, ObjectOf(req[w]),
                                   new_vote_value(req[w]))
            /\ vote_diff' = [vote_diff EXCEPT ![w] = CreateDiff(new_vote_value(req[w]))]
            /\ response' = [response EXCEPT ![w] = "OK"]
    /\ UNCHANGED <<ups, downs, score, req, vote_object, vote, vote_vote_object, calls>>

\* l.271-282, 287-308: vote.vote_object is fetched on its first use and
\* adjusted in memory, with vote.value and vote_diff.
LoadVoteObject(w) ==
    /\ pc[w] = "load"
    /\ LET v   == new_vote_value(req[w])
           obj == ReadObject(ObjectOf(req[w]))
           can == Cancel(obj, vote[w].read)
           chg == Change(obj, vote[w].read, v)
       IN  IF vote[w].read = v
           THEN /\ vote_vote_object' = [vote_vote_object EXCEPT ![w] = can.obj]
                /\ vote_diff' = [vote_diff EXCEPT ![w] = can.diff]
                /\ vote' = [vote EXCEPT ![w].value = can.value]
                /\ pc' = [pc EXCEPT ![w] = "save_object"]
                /\ UNCHANGED response
           ELSE IF chg.ok
           THEN /\ vote_vote_object' = [vote_vote_object EXCEPT ![w] = chg.obj]
                /\ vote_diff' = [vote_diff EXCEPT ![w] = chg.diff]
                /\ vote' = [vote EXCEPT ![w].value = chg.value]
                /\ pc' = [pc EXCEPT ![w] = "save_object"]
                /\ UNCHANGED response
           ELSE /\ pc' = [pc EXCEPT ![w] = "done"]
                /\ response' = [response EXCEPT ![w] = "BadRequest"]
                /\ UNCHANGED <<vote_vote_object, vote_diff, vote>>
    /\ UNCHANGED <<db, req, vote_object, calls>>

\* l.283, 309: vote.vote_object.save().
SaveVoteObject(w) ==
    /\ pc[w] = "save_object"
    /\ SaveObject(ObjectOf(req[w]), vote_vote_object[w])
    /\ pc' = [pc EXCEPT ![w] = "save_vote"]
    /\ UNCHANGED <<votes, locals, calls>>

\* l.284, 310-313: vote.save() and the response.
SaveVote(w) ==
    /\ pc[w] = "save_vote"
    /\ votes' = UpdateVote(votes, vote[w].id, vote[w].value)
    /\ pc' = [pc EXCEPT ![w] = "done"]
    /\ response' = [response EXCEPT ![w] = "OK"]
    /\ UNCHANGED <<ups, downs, score, req, vote_object, vote, vote_vote_object,
                   vote_diff, calls>>

\* The response is sent; the worker is free for the next request.
Return(w) ==
    /\ pc[w] = "done"
    /\ pc' = [pc EXCEPT ![w] = "idle"]
    /\ req' = [req EXCEPT ![w] = NoRequest]
    /\ vote_object' = [vote_object EXCEPT ![w] = NoObject]
    /\ vote' = [vote EXCEPT ![w] = NoVote]
    /\ vote_vote_object' = [vote_vote_object EXCEPT ![w] = NoObject]
    /\ vote_diff' = [vote_diff EXCEPT ![w] = 0]
    /\ response' = [response EXCEPT ![w] = ""]
    /\ UNCHANGED <<db, calls>>

ConcNext ==
    \E w \in Workers :
        \/ \E r \in Requests : Request(w, r)
        \/ GetObject(w)
        \/ LookupVote(w)
        \/ CreateVote(w)
        \/ SaveNewVote(w)
        \/ LoadVoteObject(w)
        \/ SaveVoteObject(w)
        \/ SaveVote(w)
        \/ Return(w)

ConcSpec == Init /\ [][ConcNext]_vars

(***************************************************************************)
(* Properties.                                                             *)
(***************************************************************************)
\* The stored values of the Vote rows of one (user, votable) pair.
ValuesOf(rows, user, o) == {r.value : r \in VotesOf(rows, user, o)}

\* The number of Vote rows on votable o with the given value.
Tally(o, value) == Cardinality({r \in votes : r.obj = o /\ r.value = value})

\* No request is being handled.
Quiescent == \A w \in Workers : pc[w] \in {"idle", "done"}

\* The request of the call that a step of Spec makes.
Call == req'[Server]

\* The call that a step of Spec makes succeeds.
Served == response'[Server] = "OK"

\* C1: in every state, also while requests run at the same time, the stored
\* score of every votable equals its stored ups minus its stored downs.
C1_ScoreIsUpsMinusDowns ==
    \A o \in Votables : score[o] = ups[o] - downs[o]

C1_Witness ==
    \E o \in Votables :
        /\ Quiescent
        /\ ups[o] = 1 /\ downs[o] = 1 /\ score[o] = 0
        /\ Tally(o, 1) = 1 /\ Tally(o, -1) = 1

\* C2: when two different users cast +1 and -1 on the same fresh votable at
\* the same time, the counters end as ups = 1, downs = 1, score = 0.
C2_NoLostUpdate ==
    \A o \in Votables :
        ( /\ calls = 2
          /\ \A w \in Workers : pc[w] = "done" /\ response[w] = "OK"
                                /\ ObjectOf(req[w]) = o
          /\ req["w1"].user # req["w2"].user
          /\ {req["w1"].vote_value, req["w2"].vote_value} = {"1", "-1"} )
        => (ups[o] = 1 /\ downs[o] = 1 /\ score[o] = 0)

C4_FirstCast ==
    [][LET r == Call
           o == ObjectOf(r)
           v == new_vote_value(r)
       IN  (Served /\ VotesOf(votes, r.user, o) = {})
           =>    /\ \E row \in votes' :
                        /\ row \notin votes
                        /\ votes' = votes \cup {row}
                        /\ row.user = r.user /\ row.obj = o /\ row.value = v
                 /\ v \in {-1, 1}
                 /\ vote_diff'[Server] = v
                 /\ ups'[o] = ups[o] + (IF v = 1 THEN 1 ELSE 0)
                 /\ downs'[o] = downs[o] + (IF v = -1 THEN 1 ELSE 0)
                 /\ score'[o] = score[o] + v]_vars

C4_Witness ==
    /\ response[Server] = "OK"
    /\ vote[Server].id = 0
    /\ vote_diff[Server] = -1
    /\ ValuesOf(votes, req[Server].user, ObjectOf(req[Server])) = {-1}

\* C5: when a user's first cast on a fresh votable is followed at once by the
\* same cast, the first returns the value, the second returns its negation,
\* the stored vote is 0 and ups, downs and score are back at what they were
\* before the first.
C5_CastTwice ==
    [][LET r == Call
           o == ObjectOf(r)
           v == new_vote_value(r)
       IN  ( /\ req[Server] = r /\ response[Server] = "OK"
             /\ vote[Server].id = 0
             /\ vote_object[Server] = NoObject
             /\ {q \in votes : q.obj = o} = VotesOf(votes, r.user, o)
             /\ Served )
           =>    /\ vote_diff[Server] = v
                 /\ vote_diff'[Server] = -v
                 /\ ValuesOf(votes', r.user, o) = {0}
                 /\ ups'[o] = vote_object[Server].ups
                 /\ downs'[o] = vote_object[Server].downs
                 /\ score'[o] = vote_object[Server].score]_vars

C5_Witness ==
    LET r == req[Server]
    IN  /\ response[Server] = "OK"
        /\ vote[Server].read = 1 /\ vote[Server].value = 0
        /\ vote_diff[Server] = -1
        /\ ReadObject(ObjectOf(r)) = NoObject
        /\ {q.value : q \in {x \in votes : x.obj = ObjectOf(r)}} = {0}

\* C6: a cast of the opposite value by a user whose stored vote is +1 or -1
\* returns twice the value cast, moves ups by the value, downs by its
\* negation and score by twice the value, stores the value cast, and the
\* pair has exactly one Vote row before and after.
C6_Flip ==
    [][LET r == Call
           o == ObjectOf(r)
           v == new_vote_value(r)
       IN  (Served /\ ValuesOf(votes, r.user, o) = {-v})
           =>    /\ vote_diff'[Server] = 2 * v
                 /\ ups'[o] = ups[o] + v
                 /\ downs'[o] = downs[o] - v
                 /\ score'[o] = score[o] + 2 * v
                 /\ ValuesOf(votes', r.user, o) = {v}
                 /\ Cardinality(VotesOf(votes, r.user, o)) = 1
                 /\ Cardinality(VotesOf(votes', r.user, o)) = 1]_vars

C6_Witness ==
    /\ response[Server] = "OK"
    /\ vote[Server].read = 1 /\ vote[Server].value = -1
    /\ vote_diff[Server] = -2
    /\ downs[ObjectOf(req[Server])] = 2

\* C7: a request of an unauthenticated user is answered Forbidden and leaves
\* every counter and every Vote row as it was.
C7_Unauthorized ==
    [][Call.user = Anonymous
       => (response'[Server] = "Forbidden" /\ UNCHANGED db)]_vars

C7_Witness ==
    /\ req[Server].user = Anonymous
    /\ response[Server] = "Forbidden"
    /\ ObjectExists(req[Server])
    /\ req[Server].vote_value = "1"
    /\ \E o \in Votables : ups[o] = 1 /\ downs[o] = 1

\* C8: whenever a request that found the user's Vote has saved the adjusted
\* counters, the Vote row holds the value the counters were adjusted for.
C8_AppliedTogether ==
    \A w \in Workers :
        pc[w] = "save_vote"
        => ValuesOf(votes, req[w].user, ObjectOf(req[w])) = {vote[w].value}

\* C9: a cast by a user whose stored vote is 0 returns the value cast, moves
\* ups by 1 for +1, downs by 1 for -1 and score by the value, and changes the
\* value of the existing row; no row is added.
C9_RecastAfterCancel ==
    [][LET r == Call
           o == ObjectOf(r)
           v == new_vote_value(r)
       IN  (Served /\ ValuesOf(votes, r.user, o) = {0})
           =>    /\ vote_diff'[Server] = v
                 /\ ups'[o] = ups[o] + (IF v = 1 THEN 1 ELSE 0)
                 /\ downs'[o] = downs[o] + (IF v = -1 THEN 1 ELSE 0)
                 /\ score'[o] = score[o] + v
                 /\ \E row \in votes :
                        /\ row.user = r.user /\ row.obj = o
                        /\ votes' = (votes \ {row}) \cup {[row EXCEPT !.value = v]}]_vars

C9_Witness ==
    /\ response[Server] = "OK"
    /\ vote[Server].id # 0
    /\ vote[Server].read = 0 /\ vote[Server].value = -1
    /\ vote_diff[Server] = -1

\* C10: whenever no request is being handled, every votable's stored ups is
\* the number of its Vote rows with value +1 and its stored downs the number
\* with value -1, and neither is negative.
C10_CountersMatchVotes ==
    Quiescent
    => \A o \in Votables :
           /\ ups[o] = Tally(o, 1)
           /\ downs[o] = Tally(o, -1)
           /\ ups[o] >= 0
           /\ downs[o] >= 0

====
